---------------------------- MODULE Spec2Model ----------------------------
(***************************************************************************)
(* dirhover: a directional hover overlay attached to one host element.     *)
(*                                                                         *)
(* The model covers the attachment returned by dirhover(userOptions): the  *)
(* host's DOM (attributes, classes, inline style, children), the overlay   *)
(* ("curtain") and child wrapper it builds, the four listeners, the        *)
(* module-level tweenMap, and the animation engine (gsap) as the external  *)
(* collaborator that owns the tweens: set / fromTo / to / kill /           *)
(* eventCallback, and the tick that completes a running tween and fires    *)
(* its onComplete callback.                                                *)
(***************************************************************************)
EXTENDS Integers, Sequences, FiniteSets, TLC

(***************************************************************************)
(* Bounds of the model.                                                    *)
(***************************************************************************)
\* Longest initial child list of the host.
MaxLen == 1
\* Number of pointer/touch events dispatched on the host in one behaviour.
MaxEvents == 3
\* Width and height of the host's bounding rectangle.
RectW == 2
RectH == 2
\* Largest width and height of the rectangles detectSide is applied to.
MaxRect == 3

(***************************************************************************)
(* dirHover.utils.ts: detectSide and getPositionFromSide.                  *)
(***************************************************************************)
\* Object.entries(distances): the insertion order of the object literal.
SideOrder == <<"left", "right", "top", "bottom">>

distances(x, y, rect) ==
    [left |-> x, right |-> rect.width - x, top |-> y, bottom |-> rect.height - y]

\* reduceClosest with <= for <: among equal distances the last entry wins.
RECURSIVE reduceClosest_LastWins(_, _, _)
reduceClosest_LastWins(d, i, closest) ==
    IF i > Len(SideOrder) THEN closest
    ELSE reduceClosest_LastWins(d, i + 1,
            IF d[SideOrder[i]] <= d[closest] THEN SideOrder[i] ELSE closest)

\* Array.prototype.reduce over the entries from index i on, accumulator closest.
RECURSIVE reduceClosest(_, _, _)
reduceClosest(d, i, closest) ==
    IF i > Len(SideOrder) THEN closest
    ELSE reduceClosest(d, i + 1,
                       IF d[SideOrder[i]] < d[closest] THEN SideOrder[i] ELSE closest)

detectSide(event, rect) ==
    LET x == event.clientX - rect.left
        y == event.clientY - rect.top
    IN  reduceClosest(distances(x, y, rect), 1, "left")

\* The offset of the overshoot: 101 percent.
Overshoot == 101

\* getPositionFromSide whose default branch returns the resting offset.
getPositionFromSide_DefaultCenter(side) ==
    CASE side = "left"   -> [xPercent |-> -Overshoot, yPercent |-> 0]
      [] side = "right"  -> [xPercent |-> Overshoot, yPercent |-> 0]
      [] side = "top"    -> [xPercent |-> 0, yPercent |-> -Overshoot]
      [] side = "bottom" -> [xPercent |-> 0, yPercent |-> Overshoot]
      [] OTHER           -> [xPercent |-> 0, yPercent |-> 0]

getPositionFromSide(side) ==
    CASE side = "left"   -> [xPercent |-> -Overshoot, yPercent |-> 0]
      [] side = "right"  -> [xPercent |-> Overshoot, yPercent |-> 0]
      [] side = "top"    -> [xPercent |-> 0, yPercent |-> -Overshoot]
      [] side = "bottom" -> [xPercent |-> 0, yPercent |-> Overshoot]
      [] side = "center" -> [xPercent |-> 0, yPercent |-> 0]
      [] OTHER           -> [xPercent |-> 0, yPercent |-> Overshoot]

Rest == [xPercent |-> 0, yPercent |-> 0]

(***************************************************************************)
(* The DOM.  A node is a record of one shape: a text node carries its      *)
(* characters in data, an element its tag, attributes, class list, inline  *)
(* style and children.  Attributes and style are sets of <<name, value>>,  *)
(* the class list is a set of names.                                       *)
(***************************************************************************)
Text(chars) ==
    [type |-> "text", tag |-> "", data |-> chars, attrs |-> {}, cls |-> {},
     style |-> {}, children |-> <<>>]

Element(tag, attrs, cls, style, children) ==
    [type |-> "element", tag |-> tag, data |-> <<>>, attrs |-> attrs, cls |-> cls,
     style |-> style, children |-> children]

\* Element.setAttribute / style assignment: the last value of a name wins.
setAttribute(attrs, k, v) == {p \in attrs : p[1] # k} \cup {<<k, v>>}

\* Applies the pairs of seq in order.
RECURSIVE setAll(_, _)
setAll(attrs, seq) ==
    IF seq = <<>> THEN attrs
    ELSE setAll(setAttribute(attrs, Head(seq)[1], Head(seq)[2]), Tail(seq))

\* Markup is a sequence of tokens: a character, an open tag, a close tag.
CharTok(c) == [k |-> "char", v |-> c, attrs |-> {}, cls |-> {}, style |-> {}]
OpenTok(n) == [k |-> "open", v |-> n.tag, attrs |-> n.attrs, cls |-> n.cls, style |-> n.style]
CloseTok(n) == [k |-> "close", v |-> n.tag, attrs |-> {}, cls |-> {}, style |-> {}]

RECURSIVE charToks(_)
charToks(chars) ==
    IF chars = <<>> THEN <<>> ELSE <<CharTok(Head(chars))>> \o charToks(Tail(chars))

\* The innerHTML getter: the serialization of a child list.
RECURSIVE serialize(_)
serialize(nodes) ==
    IF nodes = <<>> THEN <<>>
    ELSE LET n == Head(nodes)
         IN  (IF n.type = "text" THEN charToks(n.data)
              ELSE <<OpenTok(n)>> \o serialize(n.children) \o <<CloseTok(n)>>)
             \o serialize(Tail(nodes))

\* The innerHTML setter: the fragment parser.  Returns the nodes up to the
\* first unmatched close tag (or the end) and the tokens left after it.
\* Consecutive characters become one text node.
RECURSIVE parseFrom(_)
parseFrom(toks) ==
    IF toks = <<>> THEN [nodes |-> <<>>, rest |-> <<>>]
    ELSE LET t == Head(toks)
         IN  CASE t.k = "close" -> [nodes |-> <<>>, rest |-> Tail(toks)]
               [] t.k = "char" ->
                    LET r == parseFrom(Tail(toks))
                    IN  IF r.nodes # <<>> /\ Head(r.nodes).type = "text"
                        THEN [nodes |-> <<Text(<<t.v>> \o Head(r.nodes).data)>>
                                        \o Tail(r.nodes),
                              rest |-> r.rest]
                        ELSE [nodes |-> <<Text(<<t.v>>)>> \o r.nodes, rest |-> r.rest]
               [] OTHER ->
                    LET inner == parseFrom(Tail(toks))
                        after == parseFrom(inner.rest)
                    IN  [nodes |-> <<Element(t.v, t.attrs, t.cls, t.style, inner.nodes)>>
                                    \o after.nodes,
                         rest |-> after.rest]

parse(markup) == parseFrom(markup).nodes

innerHTML(node) == serialize(node.children)

\* Node.contains: the node itself or one of its descendants.
RECURSIVE contains(_, _)
contains(root, n) ==
    \/ root = n
    \/ \E i \in 1..Len(root.children) : contains(root.children[i], n)

\* Node.removeChild: the child list without its first occurrence of n.
RECURSIVE removeChild(_, _)
removeChild(children, n) ==
    IF children = <<>> THEN <<>>
    ELSE IF Head(children) = n THEN Tail(children)
    ELSE <<Head(children)>> \o removeChild(Tail(children), n)

\* The value of a variable that holds no element (null / undefined).
Null ==
    [type |-> "null", tag |-> "", data |-> <<>>, attrs |-> {}, cls |-> {},
     style |-> {}, children |-> <<>>]

\* createDirHoverElements(tag, attrs, html, styles, className); attrs and
\* styles are sequences of pairs in the order of Object.entries, html and
\* className are empty when not given.  The aria-hidden default is applied
\* when attrs['aria-hidden'] is falsy: the key is absent or its value is ''.
createDirHoverElements(win, tag, attrs, html, styles, className) ==
    IF ~win THEN Null
    ELSE LET a1 == setAll({}, attrs)
             a2 == IF (\A p \in a1 : p[1] = "aria-hidden" => p[2] = "")
                      /\ tag = "span"
                   THEN setAttribute(a1, "aria-hidden", "true") ELSE a1
         IN  Element(tag, a2,
                     IF className # "" THEN {className} ELSE {},
                     setAll({}, styles),
                     IF html # <<>> THEN parse(html) ELSE <<>>)

(***************************************************************************)
(* Options.  userOptions is what the caller passes to dirhover(); a field  *)
(* the caller leaves out is Undefined (strings, sequences) or FALSE (the   *)
(* callbacks onEnter and onLeave: TRUE when the caller supplies one).      *)
(* overlay is a record holding exactly the keys the caller gives, <<>>     *)
(* when the caller gives none, and so is animation; opacity is a number,   *)
(* duration is in milliseconds (the code's seconds times 1000).            *)
(***************************************************************************)
Undefined == "undefined"

defaultOptions ==
    [animation |-> [duration |-> 125, ease |-> "power2.out"],
     overlay |-> [background |-> "rgba(30, 30, 40, 0.12)", opacity |-> 1,
                  mixBlendMode |-> "normal"],
     touchPosition |-> [start |-> "bottom", end |-> "top"]]

NoUserOptions ==
    [animation |-> <<>>,
     overlay |-> <<>>,
     touchPosition |-> [start |-> Undefined, end |-> Undefined],
     parentClass |-> "", childClass |-> "", curtainClass |-> "",
     parentAttrs |-> <<>>, childAttrs |-> <<>>, curtainAttrs |-> <<>>,
     onEnter |-> FALSE, onLeave |-> FALSE]

CustomUserOptions ==
    [animation |-> [ease |-> "power1.inOut"],
     overlay |-> [background |-> "rgba(0,0,0,0.2)", opacity |-> 0],
     touchPosition |-> [start |-> "left", end |-> "center"],
     parentClass |-> "custom-parent", childClass |-> "custom-child",
     curtainClass |-> "custom-curtain",
     parentAttrs |-> << <<"tabindex", "0">> >>,
     childAttrs |-> << <<"aria-live", "polite">>, <<"aria-hidden", "">> >>,
     curtainAttrs |-> << <<"aria-hidden", "true">> >>,
     onEnter |-> TRUE, onLeave |-> TRUE]

\* The caller asks for no animation time: animation: { duration: 0 }.
ZeroDurationUserOptions == [NoUserOptions EXCEPT !.animation = [duration |-> 0]]

UserOptionSets == {NoUserOptions, CustomUserOptions, ZeroDurationUserOptions}

\* The merge of userOptions over defaultOptions: animation and overlay are
\* the spread of the caller's keys over the default's, touchPosition is
\* a ?? b per field.
mergeOptions(user) ==
    [animation |->
        [k \in DOMAIN defaultOptions.animation \cup DOMAIN user.animation |->
            IF k \in DOMAIN user.animation THEN user.animation[k]
            ELSE defaultOptions.animation[k]],
     overlay |->
        [k \in DOMAIN defaultOptions.overlay \cup DOMAIN user.overlay |->
            IF k \in DOMAIN user.overlay THEN user.overlay[k]
            ELSE defaultOptions.overlay[k]],
     touchPosition |->
        [start |-> IF user.touchPosition.start # Undefined
                   THEN user.touchPosition.start ELSE defaultOptions.touchPosition.start,
         end   |-> IF user.touchPosition.end # Undefined
                   THEN user.touchPosition.end ELSE defaultOptions.touchPosition.end]]

(***************************************************************************)
(* The hosts the attachment is applied to: a button whose children are any *)
(* list of at most MaxLen nodes over a text node and an element holding a  *)
(* text node.  Two text nodes may be adjacent, as a script can leave them. *)
(***************************************************************************)
ContentNodes == {Text(<<"a">>), Element("b", {}, {}, {}, <<Text(<<"c">>)>>)}

RECURSIVE SeqsUpTo(_, _)
SeqsUpTo(S, n) ==
    IF n = 0 THEN {<<>>}
    ELSE LET shorter == SeqsUpTo(S, n - 1)
         IN  shorter \cup {Append(q, e) : q \in shorter, e \in S}

Hosts == {Element("button", {}, {}, {}, c) : c \in SeqsUpTo(ContentNodes, MaxLen)}

\* element.getBoundingClientRect() of the host.
HostRect == [left |-> 1, top |-> 1, width |-> RectW, height |-> RectH]

\* The pointer positions of a mouse event: the middle of the host's left
\* border and the middle of its bottom border.
MouseEvents ==
    {[clientX |-> HostRect.left, clientY |-> HostRect.top + (RectH \div 2)],
     [clientX |-> HostRect.left + (RectW \div 2), clientY |-> HostRect.top + RectH]}

EventTypes == {"mouseenter", "mouseleave", "touchstart", "touchend"}

(***************************************************************************)
(* The animation engine.  tweens is the sequence of all tweens created, a  *)
(* tween's id its index.  status is "active" from creation until the tween *)
(* completes ("completed") or is killed ("killed").  onComplete is the     *)
(* callback the tween holds: "delete" is () => tweenMap.delete(curtain),   *)
(* "chain" the callback a leave registers, which starts the out tween to   *)
(* position.                                                               *)
(***************************************************************************)
NoTween == 0

DeleteCallback == [type |-> "delete", position |-> Rest]
ChainCallback(position) == [type |-> "chain", position |-> position]

\* The element identity the WeakMap is keyed by.
CurtainKey == "curtain"

VARIABLES
    window,           \* typeof window !== 'undefined'
    userOptions,      \* the argument of dirhover()
    node,             \* the host element
    phase,            \* "mounting", "attached", "detached", "inert"
    originalContent,  \* closure: the snapshot of node.innerHTML
    child,            \* closure: the child wrapper, or Null
    curtain,          \* closure: the overlay, or Null
    listeners,        \* the event types with a handler registered on node
    tweenMap,         \* the WeakMap: a function from element keys to tween ids
    tweens,           \* the engine's tweens
    curtainPos,       \* the overlay's xPercent / yPercent
    dispatched,       \* number of events dispatched on the host
    fired,            \* listener firings: [enter, leave]
    calls,            \* invocations of the user callbacks: [onEnter, onLeave]
    lastOp,           \* the operation of the last step, with its event
    lastPointer,      \* the last listener that fired: "enter", "leave", "none"
    engineCalls,      \* the engine calls the last step made, in order
    before,           \* the host as it was when the attachment was applied
    lastPosition,     \* the offset of the edge of the last listener that fired
    probe,            \* the arguments a pure function is applied to
    answer            \* the results of the pure functions applied to probe

vars == <<window, userOptions, node, phase, originalContent, child, curtain,
          listeners, tweenMap, tweens, curtainPos, dispatched, fired, calls,
          lastOp, lastPointer, engineCalls, before, lastPosition, probe, answer>>

\* The variables of the pure functions' applications.
pure == <<probe, answer>>

NoEvent == [clientX |-> 0, clientY |-> 0]

\* A probe is a pointer event, a rectangle and a side; an answer the side
\* detectSide returned and the offset getPositionFromSide returned.
NoRect == [left |-> 0, top |-> 0, width |-> 0, height |-> 0]
NoProbe == [event |-> NoEvent, rect |-> NoRect, side |-> "none"]
NoAnswer == [side |-> "none", position |-> Rest, sideDone |-> FALSE,
             positionDone |-> FALSE]
\* A step: an operation, the event it handles, the tween it completes.
Op(name, event, id) == [op |-> name, event |-> event, tween |-> id]

EmptyMap == [k \in {} |-> NoTween]

\* WeakMap.get(key) || null
tweenMapGet(map, key) == IF key \in DOMAIN map THEN map[key] ELSE NoTween
\* WeakMap.set(key, value)
tweenMapSet(map, key, value) ==
    [k \in DOMAIN map \cup {key} |-> IF k = key THEN value ELSE map[k]]
\* WeakMap.delete(key)
tweenMapDelete(map, key) == [k \in DOMAIN map \ {key} |-> map[k]]

Init ==
    /\ window \in BOOLEAN
    /\ userOptions \in UserOptionSets
    /\ node \in Hosts
    /\ phase = "mounting"
    /\ originalContent = <<>>
    /\ child = Null
    /\ curtain = Null
    /\ listeners = {}
    /\ tweenMap = EmptyMap
    /\ tweens = <<>>
    /\ curtainPos = Rest
    /\ dispatched = 0
    /\ fired = [enter |-> 0, leave |-> 0]
    /\ calls = [onEnter |-> 0, onLeave |-> 0]
    /\ lastOp = Op("none", NoEvent, NoTween)
    /\ lastPointer = "none"
    /\ engineCalls = <<>>
    /\ before = node
    /\ lastPosition = Rest
    /\ probe = NoProbe
    /\ answer = NoAnswer

(***************************************************************************)
(* Engine calls.  A handler runs to completion on the UI thread: it is a   *)
(* function from the engine state at its start (the tweens, the tweenMap,  *)
(* the overlay's offset, and the log of the calls made so far) to the      *)
(* engine state at its end, composed call by call in the order of the code.*)
(***************************************************************************)
Engine == [tweens |-> tweens, tweenMap |-> tweenMap, curtainPos |-> curtainPos,
           log |-> <<>>]

Call(name, id) == [call |-> name, tween |-> id]

\* The options of this attachment, merged when dirhover() is called.
options == mergeOptions(userOptions)

\* A tween as the call that creates it returns it.  The engine renders a
\* tween of duration 0 to its end inside the call and runs the onComplete
\* of its vars there; a tween of positive duration is running when the call
\* returns and completes on a later tick.
newTween(kind, from, to, animation) ==
    [kind |-> kind,
     status |-> IF animation.duration > 0 THEN "active" ELSE "completed",
     from |-> from, to |-> to,
     duration |-> animation.duration, ease |-> animation.ease,
     onComplete |-> DeleteCallback]

\* tween.kill(): a running tween stops where it is and never completes.
kill(e, id) ==
    [e EXCEPT !.tweens[id].status = IF @ = "active" THEN "killed" ELSE @,
              !.log = Append(@, Call("kill", id))]

\* gsap.set(curtain, position)
gsapSet(e, position) ==
    [e EXCEPT !.curtainPos = position, !.log = Append(@, Call("set", NoTween))]

mapSet(e, id) == [e EXCEPT !.tweenMap = tweenMapSet(@, CurtainKey, id)]
mapDelete(e) == [e EXCEPT !.tweenMap = tweenMapDelete(@, CurtainKey)]

\* gsap.fromTo(curtain, from, {...to, ...animation, onComplete}): renders the
\* from values at once; with duration 0 it renders the to values and runs
\* onComplete (tweenMap.delete) before it returns.
gsapFromTo(e, from, to, animation) ==
    LET e1 == [e EXCEPT !.tweens = Append(@, newTween("in", from, to, animation)),
                        !.curtainPos = IF animation.duration > 0 THEN from ELSE to,
                        !.log = Append(@, Call("fromTo", Len(e.tweens) + 1))]
    IN  IF animation.duration > 0 THEN e1 ELSE mapDelete(e1)

\* gsap.to(curtain, {...position, ...animation, onComplete}): starts from the
\* offset the overlay has; with duration 0 it renders the position and runs
\* onComplete (tweenMap.delete) before it returns.
gsapTo(e, position, animation) ==
    LET e1 == [e EXCEPT !.tweens = Append(@, newTween("out", e.curtainPos, position,
                                                      animation)),
                        !.curtainPos = IF animation.duration > 0 THEN @ ELSE position,
                        !.log = Append(@, Call("to", Len(e.tweens) + 1))]
    IN  IF animation.duration > 0 THEN e1 ELSE mapDelete(e1)

\* tween.eventCallback('onComplete', cb): replaces the tween's callback.
eventCallback(e, id, cb) ==
    [e EXCEPT !.tweens[id].onComplete = cb,
              !.log = Append(@, Call("eventCallback", id))]

\* The tween a call just created.
created(e) == Len(e.tweens)

(***************************************************************************)
(* dirHover.handlers.ts: dirHoverHandler.                                  *)
(***************************************************************************)
\* handlerIn that starts the in tween without cancelling the tracked tween.
handlerIn_NoKill(e, position) ==
    LET e2 == gsapFromTo(e, position, Rest, options.animation)
    IN  mapSet(e2, created(e2))

\* handlerIn that starts the in tween before it cancels the tracked tween.
handlerIn_StartFirst(e, position) ==
    LET currentTween == tweenMapGet(e.tweenMap, CurtainKey)
        e1 == gsapFromTo(e, position, Rest, options.animation)
        e2 == IF currentTween # NoTween THEN kill(e1, currentTween) ELSE e1
    IN  mapSet(e2, created(e2))

\* handlerIn that cancels the tracked tween only when it is an out tween.
handlerIn_KillsOnlyOut(e, position) ==
    LET currentTween == tweenMapGet(e.tweenMap, CurtainKey)
        e1 == IF currentTween # NoTween /\ e.tweens[currentTween].kind = "out"
              THEN kill(e, currentTween) ELSE e
        e2 == gsapFromTo(e1, position, Rest, options.animation)
    IN  mapSet(e2, created(e2))

\* action === 'in': kill the tracked tween, start the in tween, track it.
handlerIn(e, position) ==
    LET currentTween == tweenMapGet(e.tweenMap, CurtainKey)
        e1 == IF currentTween # NoTween THEN kill(e, currentTween) ELSE e
        e2 == gsapFromTo(e1, position, Rest, options.animation)
    IN  mapSet(e2, created(e2))

\* handlerOut that starts the out tween at once, whatever is running.
handlerOut_StartsAtOnce(e, position) ==
    LET e1 == gsapTo(e, position, options.animation)
    IN  mapSet(e1, created(e1))

\* action === 'out': chain behind the tracked tween, or start the out tween.
handlerOut(e, position) ==
    LET currentTween == tweenMapGet(e.tweenMap, CurtainKey)
    IN  IF currentTween # NoTween
        THEN eventCallback(e, currentTween, ChainCallback(position))
        ELSE LET e1 == gsapTo(e, position, options.animation)
             IN  mapSet(e1, created(e1))

\* The callback a tween holds, run when the tween completes.
onComplete(e, cb) ==
    IF cb.type = "delete" THEN mapDelete(e)
    ELSE LET e1 == gsapTo(e, cb.position, options.animation)
         IN  mapSet(e1, created(e1))

dirHoverHandler(e, action, direction) ==
    IF curtain = Null THEN e
    ELSE LET position == getPositionFromSide(direction)
         IN  IF action = "in" THEN handlerIn(e, position) ELSE handlerOut(e, position)

createMouseHandler(e, action, event) ==
    dirHoverHandler(e, action, detectSide(event, HostRect))

\* createTouchHandler that takes the start edge for both actions.
createTouchHandler_AlwaysStart(e, action) ==
    dirHoverHandler(e, action, options.touchPosition.start)

createTouchHandler(e, action) ==
    dirHoverHandler(e, action,
                    IF action = "in" THEN options.touchPosition.start
                    ELSE options.touchPosition.end)

\* The engine state a step leaves.
Apply(e) ==
    /\ tweens' = e.tweens
    /\ tweenMap' = e.tweenMap
    /\ curtainPos' = e.curtainPos
    /\ engineCalls' = e.log

(***************************************************************************)
(* dirHover.attach.ts: the attachment dirhover(userOptions) returns.       *)
(***************************************************************************)
\* Setup of the parent: marker attribute, forced style, class, attributes.
attachParent(n) ==
    LET a1 == setAttribute(n.attrs, "data-dirhover", "parent")
        st == setAll(n.style, << <<"position", "relative">>, <<"overflow", "hidden">> >>)
        cl == IF userOptions.parentClass # ""
              THEN n.cls \cup {userOptions.parentClass} ELSE n.cls
    IN  [n EXCEPT !.attrs = setAll(a1, userOptions.parentAttrs),
                  !.style = st, !.cls = cl]

attachChild(html) ==
    createDirHoverElements(window, "span",
        << <<"data-dirhover", "child">> >> \o userOptions.childAttrs,
        html,
        << <<"position", "relative">>, <<"zIndex", "1">> >>,
        userOptions.childClass)

\* Number.prototype.toString of a natural number: its decimal digits.
RECURSIVE toString(_)
toString(n) ==
    LET digit == <<"0", "1", "2", "3", "4", "5", "6", "7", "8", "9">>
    IN  IF n < 10 THEN digit[n + 1]
        ELSE toString(n \div 10) \o digit[(n % 10) + 1]

\* The overlay's styles: the background is the theming variable with the
\* merged option as its fallback, opacity and blend mode are the merged options.
overlayStyles ==
    LET overlay == options.overlay
    IN  << <<"position", "absolute">>, <<"width", "100%">>, <<"height", "100%">>,
           <<"inset", "0">>,
           <<"background", "var(--dirhover-overlay-bg, " \o overlay.background \o ")">>,
           <<"opacity", toString(overlay.opacity)>>,
           <<"mixBlendMode", overlay.mixBlendMode>> >>

attachCurtain ==
    createDirHoverElements(window, "span",
        << <<"data-dirhover", "overlay">>, <<"aria-hidden", "true">> >>
            \o userOptions.curtainAttrs,
        <<>>,
        overlayStyles,
        userOptions.curtainClass)

\* attachContent that appends the child wrapper before the overlay.
attachContent_ChildFirst(n, cur, ch) ==
    [n EXCEPT !.children = (IF ch # Null THEN <<ch>> ELSE <<>>)
                           \o (IF cur # Null THEN <<cur>> ELSE <<>>)]

\* node.textContent = ''; node.append(curtain); node.append(child)
attachContent(n, cur, ch) ==
    [n EXCEPT !.children = (IF cur # Null THEN <<cur>> ELSE <<>>)
                           \o (IF ch # Null THEN <<ch>> ELSE <<>>)]

\* The initial offset of the overlay.
attachEngine(e, cur) ==
    IF cur # Null
    THEN gsapSet(e, getPositionFromSide(options.touchPosition.start))
    ELSE e

\* The handler names of the handlers object, each registered on the node.
attachListeners == listeners \cup EventTypes

\* SSR safety: typeof window === 'undefined'
noWindow_Never == FALSE

noWindow == ~window

Attach ==
    /\ phase = "mounting"
    /\ lastOp' = Op("attach", NoEvent, NoTween)
    /\ IF noWindow
       THEN /\ phase' = "inert"
            /\ engineCalls' = <<>>
            /\ UNCHANGED <<node, originalContent, child, curtain, listeners,
                           tweenMap, tweens, curtainPos>>
       ELSE LET n1 == attachParent(node)
                oc == innerHTML(n1)
                ch == attachChild(oc)
                cur == attachCurtain
            IN  /\ phase' = "attached"
                /\ originalContent' = oc
                /\ child' = ch
                /\ curtain' = cur
                /\ node' = attachContent(n1, cur, ch)
                /\ Apply(attachEngine(Engine, cur))
                /\ listeners' = attachListeners
    /\ UNCHANGED <<window, userOptions, dispatched, fired, calls, lastPointer,
                   before, lastPosition, pure>>

\* The engine part of the four handlers.
handlers(e, type, event) ==
    IF curtain = Null THEN e
    ELSE CASE type = "mouseenter" -> createMouseHandler(e, "in", event)
           [] type = "mouseleave" -> createMouseHandler(e, "out", event)
           [] type = "touchstart" -> createTouchHandler(e, "in")
           [] OTHER               -> createTouchHandler(e, "out")

\* userCallbacks with touchend calling onEnter where it should call onLeave.
userCallbacks_TouchEndEnters(c, type) ==
    IF type \in {"mouseenter", "touchstart", "touchend"}
    THEN (IF userOptions.onEnter THEN [c EXCEPT !.onEnter = @ + 1] ELSE c)
    ELSE (IF userOptions.onLeave THEN [c EXCEPT !.onLeave = @ + 1] ELSE c)

\* The user callback part of the four handlers: onEnter?.() / onLeave?.()
userCallbacks(c, type) ==
    IF type \in {"mouseenter", "touchstart"}
    THEN (IF userOptions.onEnter THEN [c EXCEPT !.onEnter = @ + 1] ELSE c)
    ELSE (IF userOptions.onLeave THEN [c EXCEPT !.onLeave = @ + 1] ELSE c)

\* The edge an event of the type is at, as an offset: the border of the
\* host's box nearest to the pointer for a mouse event, the configured start
\* edge for touchstart and the configured end edge for touchend.
edgePosition(type, event) ==
    CASE type \in {"mouseenter", "mouseleave"} ->
            getPositionFromSide(detectSide(event, HostRect))
      [] type = "touchstart" -> getPositionFromSide(options.touchPosition.start)
      [] OTHER -> getPositionFromSide(options.touchPosition.end)

\* The browser dispatches an event of the type on the host: the handler
\* registered for the type, if any, runs.
Dispatch(type, event) ==
    /\ phase \in {"attached", "detached"}
    /\ dispatched < MaxEvents
    /\ dispatched' = dispatched + 1
    /\ lastOp' = Op(type, event, NoTween)
    /\ IF type \in listeners
       THEN /\ Apply(handlers(Engine, type, event))
            /\ calls' = userCallbacks(calls, type)
            /\ fired' = IF type \in {"mouseenter", "touchstart"}
                        THEN [fired EXCEPT !.enter = @ + 1]
                        ELSE [fired EXCEPT !.leave = @ + 1]
            /\ lastPointer' = IF type \in {"mouseenter", "touchstart"}
                              THEN "enter" ELSE "leave"
            /\ lastPosition' = edgePosition(type, event)
       ELSE /\ engineCalls' = <<>>
            /\ UNCHANGED <<tweens, tweenMap, curtainPos, calls, fired, lastPointer,
                           lastPosition>>
    /\ UNCHANGED <<window, userOptions, node, phase, originalContent, child,
                   curtain, listeners, before, pure>>

MouseEnter == \E event \in MouseEvents : Dispatch("mouseenter", event)
MouseLeave == \E event \in MouseEvents : Dispatch("mouseleave", event)
TouchStart == Dispatch("touchstart", NoEvent)
TouchEnd   == Dispatch("touchend", NoEvent)

\* The engine's tick completes running tween id: the overlay is at the
\* tween's end values and the tween's onComplete callback runs.
Complete(id) ==
    /\ tweens[id].status = "active"
    /\ lastOp' = Op("complete", NoEvent, id)
    /\ LET e1 == [Engine EXCEPT !.tweens[id].status = "completed",
                                !.curtainPos = tweens[id].to]
       IN  Apply(onComplete(e1, tweens[id].onComplete))
    /\ UNCHANGED <<window, userOptions, node, phase, originalContent, child,
                   curtain, listeners, dispatched, fired, calls, lastPointer,
                   before, lastPosition, pure>>

Tick == \E id \in 1..Len(tweens) : Complete(id)

\* cleanupListeners that leaves the two touch listeners registered.
cleanupListeners_KeepsTouch == listeners \ {"mouseenter", "mouseleave"}

\* cleanupEngine that also kills the tween it drops.
cleanupEngine_Kills(e) ==
    LET currentTween == tweenMapGet(e.tweenMap, CurtainKey)
        e1 == IF currentTween # NoTween THEN kill(e, currentTween) ELSE e
    IN  IF curtain # Null THEN mapDelete(e1) ELSE e

\* cleanupEngine that leaves the tweenMap as it is.
cleanupEngine_KeepsHandle(e) == e

\* cleanupNode that removes the children it added and restores nothing.
cleanupNode_NoRestore(n) ==
    LET c1 == IF child # Null /\ contains(n, child)
              THEN removeChild(n.children, child) ELSE n.children
        n1 == [n EXCEPT !.children = c1]
        c2 == IF curtain # Null /\ contains(n1, curtain)
              THEN removeChild(n1.children, curtain) ELSE n1.children
    IN  [n1 EXCEPT !.children = c2]

\* The teardown function: the listeners it removes,
cleanupListeners == listeners \ EventTypes

\* the handle it drops,
cleanupEngine(e) == IF curtain # Null THEN mapDelete(e) ELSE e

\* and the children it removes before it restores the original content.
cleanupNode(n) ==
    LET c1 == IF child # Null /\ contains(n, child)
              THEN removeChild(n.children, child) ELSE n.children
        n1 == [n EXCEPT !.children = c1]
        c2 == IF curtain # Null /\ contains(n1, curtain)
              THEN removeChild(n1.children, curtain) ELSE n1.children
        n2 == [n1 EXCEPT !.children = c2]
    IN  [n2 EXCEPT !.children = parse(originalContent)]

Teardown ==
    /\ phase = "attached"
    /\ phase' = "detached"
    /\ lastOp' = Op("teardown", NoEvent, NoTween)
    /\ listeners' = cleanupListeners
    /\ Apply(cleanupEngine(Engine))
    /\ node' = cleanupNode(node)
    /\ UNCHANGED <<window, userOptions, originalContent, child, curtain,
                   dispatched, fired, calls, lastPointer, before, lastPosition,
                   pure>>

(***************************************************************************)
(* The pure functions on their own: detectSide applied to a pointer on or  *)
(* inside a rectangle of at most MaxRect by MaxRect, getPositionFromSide   *)
(* applied to the five positions and to strings that are none of them.     *)
(***************************************************************************)
SideInputs == {"left", "right", "top", "bottom", "center", "diagonal", ""}

Probes ==
    UNION {UNION {
        {[event |-> [clientX |-> l + x, clientY |-> t + y],
          rect |-> [left |-> l, top |-> t, width |-> w, height |-> h],
          side |-> sd] :
            x \in 0..w, y \in 0..h, l \in 0..1, t \in 0..1, sd \in SideInputs}
        : w \in 0..MaxRect} : h \in 0..MaxRect}

InitPure ==
    /\ window = TRUE
    /\ userOptions = NoUserOptions
    /\ node = Element("button", {}, {}, {}, <<>>)
    /\ phase = "mounting"
    /\ originalContent = <<>>
    /\ child = Null
    /\ curtain = Null
    /\ listeners = {}
    /\ tweenMap = EmptyMap
    /\ tweens = <<>>
    /\ curtainPos = Rest
    /\ dispatched = 0
    /\ fired = [enter |-> 0, leave |-> 0]
    /\ calls = [onEnter |-> 0, onLeave |-> 0]
    /\ lastOp = Op("none", NoEvent, NoTween)
    /\ lastPointer = "none"
    /\ engineCalls = <<>>
    /\ before = node
    /\ lastPosition = Rest
    /\ probe \in Probes
    /\ answer = NoAnswer

main == <<window, userOptions, node, phase, originalContent, child, curtain,
          listeners, tweenMap, tweens, curtainPos, dispatched, fired, calls,
          lastOp, lastPointer, engineCalls, before, lastPosition>>

DetectSide ==
    /\ ~answer.sideDone
    /\ answer' = [answer EXCEPT !.side = detectSide(probe.event, probe.rect),
                                !.sideDone = TRUE]
    /\ UNCHANGED <<main, probe>>

GetPositionFromSide ==
    /\ ~answer.positionDone
    /\ answer' = [answer EXCEPT !.position = getPositionFromSide(probe.side),
                                !.positionDone = TRUE]
    /\ UNCHANGED <<main, probe>>

NextPure ==
    \/ DetectSide
    \/ GetPositionFromSide

SpecPure == InitPure /\ [][NextPure]_vars

Next ==
    \/ Attach
    \/ MouseEnter
    \/ MouseLeave
    \/ TouchStart
    \/ TouchEnd
    \/ Tick
    \/ Teardown

Spec == Init /\ [][Next]_vars

\* The engine's ticker runs as long as a tween is running: a running tween
\* that is not killed completes.
\* The host's content plays no part in the animation: one host, with a DOM.
InitLive == Init /\ window /\ node = Element("button", {}, {}, {}, <<Text(<<"a">>)>>)

SpecLive == InitLive /\ [][Next]_vars /\ WF_vars(Tick)

(***************************************************************************)
(* Properties.                                                             *)
(***************************************************************************)
EnterTypes == {"mouseenter", "touchstart"}
LeaveTypes == {"mouseleave", "touchend"}

Tracked == tweenMapGet(tweenMap, CurtainKey)
Active(ts) == {i \in 1..Len(ts) : ts[i].status = "active"}

\* This step is a listener of one of the types firing.
Fires(types) ==
    /\ dispatched' = dispatched + 1
    /\ lastOp'.op \in types
    /\ lastOp'.op \in listeners

\* The tweens this step starts.
Started == (Len(tweens) + 1)..Len(tweens')

\* C1: once the teardown function has run, the host's inner markup is the
\* inner markup the host had immediately before attach, whatever events and
\* completions happened in between.
C1_RoundTrip == phase = "detached" => innerHTML(node) = innerHTML(before)

C1_Witness ==
    /\ phase = "detached"
    /\ innerHTML(before) # <<>>
    /\ fired.enter > 0 /\ fired.leave > 0
    /\ \E i \in 1..Len(tweens) : tweens[i].status = "completed"

\* C2: at most one tween of the overlay is active, and the tweenMap tracks
\* at most one handle for it.
C2_OneActiveTween ==
    /\ Cardinality(Active(tweens)) <= 1
    /\ Cardinality(DOMAIN tweenMap) <= 1
    /\ Tracked # NoTween => Tracked \in 1..Len(tweens)

C2_Witness ==
    /\ \E i \in 1..Len(tweens) : tweens[i].status = "killed"
    /\ \E i \in 1..Len(tweens) : tweens[i].status = "completed"
    /\ Active(tweens) # {}

\* C3: an enter that finds a tracked handle kills that handle first, then
\* starts the in tween, and the in tween becomes the tracked handle.  A
\* running handle is killed; the in tween is running after the step, or
\* finished when the duration is 0.
C3_EnterCancelsThenStarts ==
    [][(Fires(EnterTypes) /\ Tracked # NoTween) =>
         LET new == Len(tweens) + 1
         IN  /\ engineCalls' = <<Call("kill", Tracked), Call("fromTo", new)>>
             /\ tweens[Tracked].status = "active" => tweens'[Tracked].status = "killed"
             /\ tweens'[Tracked].status # "active"
             /\ Len(tweens') = new
             /\ tweens'[new].kind = "in"
             /\ tweens'[new].status = IF options.animation.duration > 0
                                      THEN "active" ELSE "completed"
             /\ tweenMapGet(tweenMap', CurtainKey) = new]_vars

C3_Witness ==
    /\ lastOp.op \in EnterTypes
    /\ \E i \in 1..Len(tweens) : tweens[i].kind = "out" /\ tweens[i].status = "killed"
    /\ Tracked = Len(tweens)

\* C4: a leave that arrives while an in tween runs leaves that tween running
\* and starts nothing; an out tween that starts while an in tween runs starts
\* in the step that completes that in tween.
C4_LeaveChainsAfterIn ==
    [][/\ \A i \in Active(tweens) :
            (Fires(LeaveTypes) /\ tweens[i].kind = "in") =>
                tweens'[i].status = "active" /\ Started = {}
       /\ \A n \in Started : \A i \in Active(tweens) :
            (tweens'[n].kind = "out" /\ tweens[i].kind = "in") =>
                /\ lastOp'.op = "complete" /\ lastOp'.tween = i
                /\ tweens'[i].status = "completed"]_vars

C4_Witness ==
    /\ lastOp.op = "complete"
    /\ tweens[lastOp.tween].kind = "in"
    /\ engineCalls = <<Call("to", Len(tweens))>>
    /\ tweens[Len(tweens)].kind = "out"
    /\ Tracked = Len(tweens)

\* C5: a killed tween never completes, so the out tween chained behind it
\* never starts; an out tween starts only when the last listener that fired
\* was a leave.
C5_EnterTakesPriority ==
    [][/\ \A i \in 1..Len(tweens) :
            tweens[i].status = "killed" => tweens'[i].status = "killed"
       /\ \A n \in Started : tweens'[n].kind = "out" => lastPointer' = "leave"]_vars

C5_Witness ==
    /\ lastPointer = "enter"
    /\ \E i \in 1..Len(tweens) :
         /\ tweens[i].status = "killed"
         /\ tweens[i].onComplete.type = "chain"
         /\ \E j \in (i + 1)..Len(tweens) :
              tweens[j].kind = "in" /\ tweens[j].status = "completed"
    /\ Active(tweens) = {}

\* C6: a running tween is killed only by a step in which an enter listener
\* fires: never by a leave, a completion or the teardown function.
C6_OnlyEnterCancels ==
    [][(\E i \in Active(tweens) : tweens'[i].status = "killed") =>
         Fires(EnterTypes)]_vars

C6_Witness ==
    /\ lastOp.op = "teardown"
    /\ fired.leave > 0
    /\ \E i \in Active(tweens) : tweens[i].kind = "in"

\* C7: the teardown function removes the four listeners: an event dispatched
\* on the host after it starts no tween, kills none, changes no tweenMap
\* entry and calls neither onEnter nor onLeave.
C7_TeardownRemovesListeners ==
    [][/\ phase' = "detached" => listeners' \cap EventTypes = {}
       /\ (phase = "detached" /\ dispatched' # dispatched) =>
            UNCHANGED <<tweens, tweenMap, curtainPos, calls, fired>>]_vars

C7_Witness ==
    /\ phase = "detached"
    /\ lastOp.op = "touchend"
    /\ userOptions.onLeave
    /\ Active(tweens) # {}

\* C8: when the teardown function returns, the tweenMap holds no entry for
\* the overlay, whatever the overlay was doing.
C8_TeardownDropsHandle == lastOp.op = "teardown" => CurtainKey \notin DOMAIN tweenMap

C8_Witness ==
    /\ lastOp.op = "teardown"
    /\ \E i \in Active(tweens) : tweens[i].onComplete.type = "chain"

\* C9: after attach and teardown the host's attributes, classes and inline
\* style are what they were before attach, its children are gone and its
\* listeners removed.
C9_TeardownRevertsHost ==
    phase = "detached" =>
        /\ node.attrs = before.attrs
        /\ node.cls = before.cls
        /\ node.style = before.style
        /\ listeners = {}
        /\ ~contains(node, curtain) /\ ~contains(node, child)

\* C10: each firing of an enter listener calls a supplied onEnter once and
\* onLeave not at all, each firing of a leave listener calls a supplied
\* onLeave once and onEnter not at all, whatever the animation state; no
\* other step calls either, and every event dispatched while attached fires
\* its listener.
C10_CallbacksOncePerEvent ==
    [][/\ Fires(EnterTypes) =>
            /\ userOptions.onEnter => calls'.onEnter = calls.onEnter + 1
            /\ calls'.onLeave = calls.onLeave
       /\ Fires(LeaveTypes) =>
            /\ userOptions.onLeave => calls'.onLeave = calls.onLeave + 1
            /\ calls'.onEnter = calls.onEnter
       /\ ~Fires(EventTypes) => calls' = calls
       /\ (phase = "attached" /\ dispatched' # dispatched) => Fires(EventTypes)]_vars

C10_Witness ==
    /\ userOptions.onEnter /\ userOptions.onLeave
    /\ calls.onEnter = 2 /\ calls.onLeave = 1
    /\ \E i \in 1..Len(tweens) : tweens[i].status = "killed"

\* C11: without a DOM the attachment does nothing: the host is as it was,
\* no node is created, no listener registered, no tweenMap entry added, no
\* engine call made, and no teardown function exists to run.
C11_NoDomNoOp ==
    ~window =>
        /\ node = before
        /\ child = Null /\ curtain = Null
        /\ listeners = {}
        /\ tweenMap = EmptyMap /\ tweens = <<>> /\ engineCalls = <<>>
        /\ curtainPos = Rest
        /\ phase \in {"mounting", "inert"}

C11_Witness == ~window /\ phase = "inert" /\ lastOp.op = "attach"

\* C12: for a pointer on or inside the rectangle detectSide returns one of
\* left, right, top, bottom, the returned edge is at the least of the four
\* distances, and among edges at that distance left wins over right, right
\* over top, top over bottom.
C12_DetectSideNearestEdge ==
    answer.sideDone =>
        LET x == probe.event.clientX - probe.rect.left
            y == probe.event.clientY - probe.rect.top
            dl == x
            dr == probe.rect.width - x
            dt == y
            db == probe.rect.height - y
            least == CHOOSE m \in {dl, dr, dt, db} : \A o \in {dl, dr, dt, db} : m <= o
        IN  /\ answer.side \in {"left", "right", "top", "bottom"}
            /\ answer.side = IF dl = least THEN "left"
                             ELSE IF dr = least THEN "right"
                             ELSE IF dt = least THEN "top"
                             ELSE "bottom"

C12_Witness ==
    /\ answer.sideDone
    /\ answer.side = "top"
    /\ probe.event.clientY - probe.rect.top
         = probe.rect.height - (probe.event.clientY - probe.rect.top)

\* C13: getPositionFromSide maps left to (-101, 0), right to (101, 0), top to
\* (0, -101), bottom to (0, 101), center to (0, 0) and anything else to the
\* offset of bottom.
C13_PositionTable ==
    answer.positionDone =>
        answer.position =
            CASE probe.side = "left"   -> [xPercent |-> -101, yPercent |-> 0]
              [] probe.side = "right"  -> [xPercent |-> 101, yPercent |-> 0]
              [] probe.side = "top"    -> [xPercent |-> 0, yPercent |-> -101]
              [] probe.side = "bottom" -> [xPercent |-> 0, yPercent |-> 101]
              [] probe.side = "center" -> [xPercent |-> 0, yPercent |-> 0]
              [] OTHER                 -> [xPercent |-> 0, yPercent |-> 101]

C13_Witness ==
    /\ answer.positionDone
    /\ probe.side = "diagonal"
    /\ answer.position = [xPercent |-> 0, yPercent |-> 101]

Idle == Tracked = NoTween /\ Active(tweens) = {}

\* C14: when the engine completes every tween that is not killed, the
\* overlay is eventually Idle (no tracked handle, no running tween) and
\* stays Idle once the events have stopped.
C14_EventuallyIdle == <>[]Idle

\* The configured touch edges, with the defaults bottom and top.
TouchStartEdge ==
    IF userOptions.touchPosition.start = Undefined THEN "bottom"
    ELSE userOptions.touchPosition.start
TouchEndEdge ==
    IF userOptions.touchPosition.end = Undefined THEN "top"
    ELSE userOptions.touchPosition.end

\* This step starts one in tween, from the offset p to the resting position:
\* the overlay is at p, or already at rest when the duration is 0.
StartsIn(p) ==
    /\ Len(tweens') = Len(tweens) + 1
    /\ tweens'[Len(tweens')].kind = "in"
    /\ tweens'[Len(tweens')].from = p
    /\ tweens'[Len(tweens')].to = Rest
    /\ curtainPos' = IF options.animation.duration > 0 THEN p ELSE Rest

\* This step aims the out animation at the offset p: it starts the out tween
\* to p, or registers the start of the out tween to p on the tracked tween.
AimsOut(p) ==
    IF Tracked = NoTween
    THEN /\ Len(tweens') = Len(tweens) + 1
         /\ tweens'[Len(tweens')].kind = "out"
         /\ tweens'[Len(tweens')].to = p
    ELSE /\ Len(tweens') = Len(tweens)
         /\ tweens'[Tracked].onComplete = [type |-> "chain", position |-> p]

\* C15: an in tween runs from the offset of its edge to (0,0), an out tween
\* to the offset of its edge; the edge is detectSide(pointer, host box) for a
\* mouse event, touchPosition.start for touchstart and touchPosition.end for
\* touchend; a chained out tween runs to the offset its leave registered.
C15_AnimationEdges ==
    [][/\ Fires({"mouseenter"}) =>
            StartsIn(getPositionFromSide(detectSide(lastOp'.event, HostRect)))
       /\ Fires({"touchstart"}) => StartsIn(getPositionFromSide(TouchStartEdge))
       /\ Fires({"mouseleave"}) =>
            AimsOut(getPositionFromSide(detectSide(lastOp'.event, HostRect)))
       /\ Fires({"touchend"}) => AimsOut(getPositionFromSide(TouchEndEdge))
       /\ \A n \in Started :
            lastOp'.op = "complete" =>
                /\ tweens'[n].kind = "out"
                /\ tweens'[n].to = tweens[lastOp'.tween].onComplete.position]_vars

C15_Witness ==
    /\ lastOp.op = "touchend"
    /\ userOptions = CustomUserOptions
    /\ Tracked # NoTween
    /\ tweens[Tracked].kind = "in"
    /\ tweens[Tracked].from = [xPercent |-> 0, yPercent |-> 101]
    /\ tweens[Tracked].onComplete = [type |-> "chain", position |-> Rest]

\* C16: right after attach in a browser the host's children are the overlay
\* and then the child wrapper, the wrapper holds the host's pre-attach
\* markup, the overlay is at the offset of touchPosition.start (bottom's by
\* default), the four listeners are registered and no handle is tracked.
C16_AfterAttach ==
    (lastOp.op = "attach" /\ window) =>
        /\ Len(node.children) = 2
        /\ node.children[1] = curtain
        /\ <<"data-dirhover", "overlay">> \in node.children[1].attrs
        /\ node.children[1].children = <<>>
        /\ node.children[2] = child
        /\ <<"data-dirhover", "child">> \in node.children[2].attrs
        /\ innerHTML(node.children[2]) = innerHTML(before)
        /\ curtainPos = getPositionFromSide(TouchStartEdge)
        /\ userOptions = NoUserOptions => curtainPos = [xPercent |-> 0, yPercent |-> 101]
        /\ listeners = {"mouseenter", "mouseleave", "touchstart", "touchend"}
        /\ CurtainKey \notin DOMAIN tweenMap
        /\ tweens = <<>>

C16_Witness ==
    /\ lastOp.op = "attach" /\ window
    /\ userOptions = CustomUserOptions
    /\ innerHTML(before) # <<>>
    /\ curtainPos = [xPercent |-> -101, yPercent |-> 0]

\* C17: once the teardown function has run, no step starts a tween on the
\* overlay and the tweenMap holds no entry for it, whichever completion
\* callbacks fire afterwards.
C17_NothingAfterTeardown ==
    [][phase = "detached" =>
         /\ Started = {}
         /\ CurtainKey \notin DOMAIN tweenMap']_vars

\* C18: when no tween is running the overlay's offset is decided by the last
\* listener that fired: (0,0) after an enter, the offset of the edge of the
\* last leave after a leave, however many leaves arrived before it.
C18_LastEventWins ==
    Active(tweens) = {} =>
        /\ lastPointer = "enter" => curtainPos = Rest
        /\ lastPointer = "leave" => curtainPos = lastPosition

\* C19: while attached the tweenMap holds an entry for the overlay exactly
\* when a tween of the overlay is running, and the entry is that tween: it
\* never holds a completed or killed tween.
C19_TrackedIffActive ==
    phase = "attached" =>
        /\ Tracked # NoTween <=> Active(tweens) # {}
        /\ Tracked # NoTween => Active(tweens) = {Tracked}

=============================================================================
